---- MODULE Spec2Model ----
(***************************************************************************)
(* Model of the Notion-Pinecone upload pipeline:                           *)
(*   NotionPinecone (src/NotionPinecone/notion.py),                        *)
(*   PineconeVectorStore (src/NotionPinecone/pinecone.py),                 *)
(*   Embedder (src/NotionPinecone/embedding.py) and the helpers of         *)
(*   src/NotionPinecone/utils.py.                                          *)
(*                                                                         *)
(* The remote services (Pinecone index, OpenAI embeddings) are modelled by *)
(* what the program observes of them: the index is a map from record id to *)
(* (values, metadata), an upsert overwrites by id, a filtered query returns*)
(* the records whose metadata matches, an embedding is a function of text. *)
(***************************************************************************)
EXTENDS Integers, Sequences, FiniteSets, TLC

(***************************************************************************)
(* Bounds of the model.                                                    *)
(***************************************************************************)
\* Documents under notion_path, and chunks they split into altogether.
MaxFiles == 2
MaxChunks == 3
\* upload_in_batches runs with every batch_size in 1..MaxBatchSize: its
\* default is 100 (pinecone.py 75), scaled down here so that a run of a few
\* chunks spans several batches.
MaxBatchSize == 2
\* Items handed to upload_in_batches when it is called on its own.
MaxItems == 3

Sources == {"s1", "s2"}
Texts == {"t1", "t2"}
\* A chunk text that no local document holds: what an earlier deployment,
\* run when a document had other content, left in the index.
StaleText == "t0"

SeqsUpTo(S, n) == UNION {[1..k -> S] : k \in 0..n}

Min(a, b) == IF a < b THEN a ELSE b

RECURSIVE Concat(_)
Concat(ss) == IF ss = <<>> THEN <<>> ELSE Head(ss) \o Concat(Tail(ss))

VARIABLES
    \* ---- NotionPinecone instance (notion.py 38-45) ----
    data,                 \* texts of the extracted documents
    sources,              \* their sources, index-aligned with data
    docs,                 \* self.docs: the chunks
    metadata,             \* self.metadata: {text, source} per chunk
    ids,                  \* self.ids: hash per chunk
    unique_notion_pages,  \* self.unique_notion_pages
    batch_size,           \* the batch_size upload_in_batches runs with
    \* ---- the remote index ----
    db,
    \* ---- one upload run ----
    pc,                   \* position of the run
    page_does_not_exist_in_db,
    run_ids, run_docs, run_embeddings, run_metadata,
    i,                    \* loop counter of upload_in_batches
    \* ---- what a run did (observed at the remote side) ----
    dbStart,              \* the index as the run found it
    sent,                 \* the vectors upserted by this run, in order
    upserts,              \* the upsert calls issued: batch index and vectors
    embedCalls,           \* embedding calls of this run
    prevCompleted,        \* the previous run returned without error
    \* ---- a constructor call (embedding.py 25-40, pinecone.py 27-64,
    \*      notion.py 25-56) ----
    cls,                  \* the class constructed
    arg,                  \* the credentials passed as arguments
    environ,              \* the credentials in os.environ
    paths,                \* the files under notion_path
    encoding_cached,      \* the tokenizer's vocabulary file is in the local cache
    cpc,                  \* position of the constructor
    doc_docs, doc_sources, pdf_docs, pdf_sources, md_docs, md_sources,
    ex_data, ex_sources,  \* data and sources of extract_notion_data
    network,              \* the remote endpoints called so far, in order
    raised,               \* the exception that left the constructor
    \* ---- a call of format_notion_source (utils.py 73-93) ----
    fmt_pc, fmt_in, fmt_out

uploadVars == <<data, sources, docs, metadata, ids, unique_notion_pages,
                batch_size, db, pc, page_does_not_exist_in_db, run_ids,
                run_docs, run_embeddings, run_metadata, i, dbStart, sent,
                upserts, embedCalls, prevCompleted>>

ctorVars == <<cls, arg, environ, paths, encoding_cached, cpc, doc_docs,
              doc_sources, pdf_docs, pdf_sources, md_docs, md_sources,
              ex_data, ex_sources, network, raised>>

fmtVars == <<fmt_pc, fmt_in, fmt_out>>

vars == <<uploadVars, ctorVars, fmtVars>>

(***************************************************************************)
(* utils.py                                                                *)
(***************************************************************************)

\* Embedder.split_text: a document text is a sequence of paragraph-sized
\* pieces, each of which the splitter returns as one chunk.
split_text(d) == d

\* utils.hash: SHA-256 of the text, a (collision-free) function of the text
\* alone.
hash(text) == <<"sha256", text>>

\* utils.hash_docs
hash_docs(ds) == [k \in 1..Len(ds) |-> hash(ds[k])]

\* utils.chunk_data_sources: the chunks of every document, and per chunk the
\* metadata {"text": split, "source": sources[i]}.
chunk_docs(dat) ==
    Concat([k \in 1..Len(dat) |-> split_text(dat[k])])

\* Faulty variant of chunk_metadatas: every chunk gets the first source.
chunk_metadatas_first_source(dat, srcs) ==
    Concat([k \in 1..Len(dat) |->
              [j \in 1..Len(split_text(dat[k])) |->
                  [text |-> split_text(dat[k])[j], source |-> srcs[1]]]])

chunk_metadatas(dat, srcs) ==
    Concat([k \in 1..Len(dat) |->
              [j \in 1..Len(split_text(dat[k])) |->
                  [text |-> split_text(dat[k])[j], source |-> srcs[k]]]])

\* NotionPinecone.get_unique_notion_pages: list(set(...)), an unordered
\* collection without repetition.
get_unique_notion_pages(metas) == {metas[k].source : k \in 1..Len(metas)}

(***************************************************************************)
(* embedding.py                                                            *)
(***************************************************************************)

\* Embedder.embed_documents: one vector per document, a function of its text.
Embedding(text) == <<"vec", text>>

embed_documents(documents) ==
    [k \in 1..Len(documents) |-> Embedding(documents[k])]

(***************************************************************************)
(* The remote index.                                                       *)
(***************************************************************************)

EmptyDb == [x \in {} |-> [values |-> <<>>, metadata |-> <<>>]]

\* One vector (id, values, metadata) written: a record of the same id is
\* overwritten.
UpsertOne(d, v) ==
    [x \in (DOMAIN d) \cup {v[1]} |->
        IF x = v[1] THEN [values |-> v[2], metadata |-> v[3]] ELSE d[x]]

\* upsert(vectors=...): the vectors written in the order given.
RECURSIVE upsert(_, _)
upsert(d, vectors) ==
    IF vectors = <<>> THEN d
    ELSE upsert(UpsertOne(d, Head(vectors)), Tail(vectors))

\* query(vector, top_k, filter={"source": page})["matches"]: the records
\* whose metadata source equals the filter.
query_matches(d, page) == {x \in DOMAIN d : d[x].metadata.source = page}

(***************************************************************************)
(* notion.py                                                               *)
(***************************************************************************)

\* Faulty variant of the existence check: a page counts as present when any
\* stored record has the id of one of its chunks (dedup by content).
check_page_by_content(d, notion_page) ==
    \E k \in 1..Len(metadata) :
        metadata[k].source = notion_page /\ ids[k] \in DOMAIN d

\* NotionPinecone._check_notion_page_in_db
check_notion_page_in_db(d, notion_page) ==
    Cardinality(query_matches(d, notion_page)) > 0

\* zip(a, b, c): as long as the shortest.
zip3(a, b, c) ==
    [k \in 1..Min(Len(a), Min(Len(b), Len(c))) |-> <<a[k], b[k], c[k]>>]

\* NotionPinecone._filter_vectors_not_in_database, first comprehension.
pages_not_in_db(d, pages) ==
    {p \in pages : ~check_notion_page_in_db(d, p)}

\* Faulty variant of the filter: every local vector passes.
filter_vectors_unfiltered(d) == zip3(ids, docs, metadata)

\* NotionPinecone._filter_vectors_not_in_database, second comprehension.
filter_vectors_not_in_database(d) ==
    LET missing == pages_not_in_db(d, unique_notion_pages)
    IN  SelectSeq(zip3(ids, docs, metadata),
                  LAMBDA z : z[3].source \in missing)

Column(zs, c) == [k \in 1..Len(zs) |-> zs[k][c]]

(***************************************************************************)
(* pinecone.py: upload_in_batches                                          *)
(***************************************************************************)

\* Faulty variant of num_batches: the remainder is forgotten.
num_batches_floor(n, bs) == n \div bs

\* len(ids) // batch_size + (len(ids) % batch_size != 0)
num_batches(n, bs) == (n \div bs) + (IF n % bs # 0 THEN 1 ELSE 0)

batch_start(k, bs) == k * bs

batch_end(k, bs, n) == Min((k + 1) * bs, n)

\* seq[a:b] of Python (0-based, b exclusive, clipped to the sequence).
Slice(s, a, b) ==
    LET hi == Min(b, Len(s))
    IN  IF a >= hi THEN <<>> ELSE [k \in 1..(hi - a) |-> s[a + k]]

\* The vectors of batch k: zip(ids_batch, embeddings_batch, metadata_batch).
batch_vectors(k) ==
    LET n == Len(run_ids)
        s == batch_start(k, batch_size)
        e == batch_end(k, batch_size, n)
    IN  zip3(Slice(run_ids, s, e), Slice(run_embeddings, s, e),
             Slice(run_metadata, s, e))

(***************************************************************************)
(* Initial states.                                                         *)
(***************************************************************************)

DocumentTexts == SeqsUpTo(Texts, MaxChunks)

\* The index before the first run: empty, or holding a record that an
\* earlier deployment stored for a source whose content has since changed.
StaleDb(s) ==
    UpsertOne(EmptyDb, <<hash(StaleText), Embedding(StaleText),
                         [text |-> StaleText, source |-> s]>>)

InitialDbs == {EmptyDb, StaleDb("s1")}

NoRun ==
    /\ page_does_not_exist_in_db = {}
    /\ run_ids = <<>>
    /\ run_docs = <<>>
    /\ run_embeddings = <<>>
    /\ run_metadata = <<>>
    /\ i = 0
    /\ sent = <<>>
    /\ upserts = <<>>
    /\ embedCalls = 0
    /\ prevCompleted = FALSE

None == "None"

\* No constructor call is modelled.
NoConstructor ==
    /\ cls = "none"
    /\ arg = <<>>
    /\ environ = <<>>
    /\ paths = <<>>
    /\ encoding_cached = TRUE
    /\ cpc = "none"
    /\ doc_docs = <<>>
    /\ doc_sources = <<>>
    /\ pdf_docs = <<>>
    /\ pdf_sources = <<>>
    /\ md_docs = <<>>
    /\ md_sources = <<>>
    /\ ex_data = <<>>
    /\ ex_sources = <<>>
    /\ network = <<>>
    /\ raised = None

\* No call of format_notion_source is modelled.
NoFormat ==
    /\ fmt_pc = "none"
    /\ fmt_in = <<>>
    /\ fmt_out = <<>>

\* No NotionPinecone instance and no run is modelled.
NoUpload ==
    /\ data = <<>>
    /\ sources = <<>>
    /\ docs = <<>>
    /\ metadata = <<>>
    /\ ids = <<>>
    /\ unique_notion_pages = {}
    /\ batch_size = 1
    /\ db = EmptyDb
    /\ dbStart = EmptyDb
    /\ pc = "none"
    /\ NoRun

\* After NotionPinecone.__init__ (notion.py 38-45): the documents extracted,
\* chunked and hashed; no run yet.
Init ==
    /\ \E n \in 0..MaxFiles :
          /\ data \in [1..n -> DocumentTexts]
          /\ Len(chunk_docs(data)) <= MaxChunks
          /\ sources \in [1..n -> Sources]
    /\ docs = chunk_docs(data)
    /\ metadata = chunk_metadatas(data, sources)
    /\ ids = hash_docs(docs)
    /\ unique_notion_pages = get_unique_notion_pages(metadata)
    /\ batch_size \in 1..MaxBatchSize
    /\ db \in InitialDbs
    /\ dbStart = db
    /\ pc = "idle"
    /\ NoRun
    /\ NoConstructor
    /\ NoFormat

(***************************************************************************)
(* upload_notion_vectors (notion.py 128-139)                               *)
(***************************************************************************)

\* The run starts: every unique page is looked up, the vectors are filtered;
\* with nothing left the method returns.
upload_notion_vectors ==
    /\ pc \in {"idle", "done", "aborted", "query_failed"}
    /\ LET filtered == filter_vectors_not_in_database(db)
       IN  /\ page_does_not_exist_in_db' = pages_not_in_db(db, unique_notion_pages)
           /\ run_ids' = Column(filtered, 1)
           /\ run_docs' = Column(filtered, 2)
           /\ run_metadata' = Column(filtered, 3)
           /\ pc' = IF Len(Column(filtered, 1)) = 0 THEN "done" ELSE "embed"
    /\ run_embeddings' = <<>>
    /\ i' = 0
    /\ dbStart' = db
    /\ sent' = <<>>
    /\ upserts' = <<>>
    /\ embedCalls' = 0
    /\ prevCompleted' = (pc = "done")
    /\ UNCHANGED <<ctorVars, fmtVars, data, sources, docs, metadata, ids, unique_notion_pages,
                   batch_size, db>>

\* The run starts and a query of the existence check raises: nothing catches
\* it, nothing has been filtered, embedded or upserted.
query_error ==
    /\ pc \in {"idle", "done", "aborted", "query_failed"}
    /\ unique_notion_pages # {}
    /\ pc' = "query_failed"
    /\ page_does_not_exist_in_db' = {}
    /\ run_ids' = <<>>
    /\ run_docs' = <<>>
    /\ run_metadata' = <<>>
    /\ run_embeddings' = <<>>
    /\ i' = 0
    /\ dbStart' = db
    /\ sent' = <<>>
    /\ upserts' = <<>>
    /\ embedCalls' = 0
    /\ prevCompleted' = (pc = "done")
    /\ UNCHANGED <<ctorVars, fmtVars, data, sources, docs, metadata, ids,
                   unique_notion_pages, batch_size, db>>

\* self.embedder.embed_documents(docs) returns.
embed_call ==
    /\ pc = "embed"
    /\ run_embeddings' = embed_documents(run_docs)
    /\ embedCalls' = embedCalls + 1
    /\ i' = 0
    /\ pc' = "upsert"
    /\ UNCHANGED <<ctorVars, fmtVars, data, sources, docs, metadata, ids, unique_notion_pages,
                   batch_size, db, page_does_not_exist_in_db, run_ids,
                   run_docs, run_metadata, dbStart, sent, upserts,
                   prevCompleted>>

\* self.embedder.embed_documents(docs) raises: nothing catches it.
embed_error ==
    /\ pc = "embed"
    /\ embedCalls' = embedCalls + 1
    /\ pc' = "aborted"
    /\ UNCHANGED <<ctorVars, fmtVars, data, sources, docs, metadata, ids, unique_notion_pages,
                   batch_size, db, page_does_not_exist_in_db, run_ids,
                   run_docs, run_embeddings, run_metadata, i, dbStart, sent,
                   upserts, prevCompleted>>

(***************************************************************************)
(* upload_in_batches (pinecone.py 75-95)                                   *)
(***************************************************************************)

\* One iteration of the loop, self.upsert returning.
upsert_batch ==
    /\ pc = "upsert"
    /\ i < num_batches(Len(run_ids), batch_size)
    /\ db' = upsert(db, batch_vectors(i))
    /\ sent' = sent \o batch_vectors(i)
    /\ upserts' = Append(upserts, [batch |-> i, vectors |-> batch_vectors(i)])
    /\ i' = i + 1
    /\ UNCHANGED <<ctorVars, fmtVars, data, sources, docs, metadata, ids, unique_notion_pages,
                   batch_size, pc, page_does_not_exist_in_db, run_ids,
                   run_docs, run_embeddings, run_metadata, dbStart,
                   embedCalls, prevCompleted>>

\* Faulty variant of upsert_error: the exception is swallowed and the loop
\* goes on with the next batch.
upsert_error_swallowed ==
    /\ pc = "upsert"
    /\ i < num_batches(Len(run_ids), batch_size)
    /\ upserts' = Append(upserts, [batch |-> i, vectors |-> batch_vectors(i)])
    /\ i' = i + 1
    /\ UNCHANGED <<ctorVars, fmtVars, data, sources, docs, metadata, ids,
                   unique_notion_pages, batch_size, db, pc,
                   page_does_not_exist_in_db, run_ids, run_docs,
                   run_embeddings, run_metadata, dbStart, sent, embedCalls,
                   prevCompleted>>

\* One iteration of the loop, self.upsert raising: the exception leaves
\* upload_in_batches and upload_notion_vectors. The request may have failed
\* before the service wrote the batch, or after (the reply lost).
upsert_error ==
    /\ pc = "upsert"
    /\ i < num_batches(Len(run_ids), batch_size)
    /\ upserts' = Append(upserts, [batch |-> i, vectors |-> batch_vectors(i)])
    /\ db' \in {db, upsert(db, batch_vectors(i))}
    /\ pc' = "aborted"
    /\ UNCHANGED <<ctorVars, fmtVars, data, sources, docs, metadata, ids,
                   unique_notion_pages, batch_size,
                   page_does_not_exist_in_db, run_ids, run_docs,
                   run_embeddings, run_metadata, i, dbStart, sent,
                   embedCalls, prevCompleted>>

\* range(num_batches) is exhausted: upload_in_batches returns.
upload_in_batches_return ==
    /\ pc = "upsert"
    /\ i = num_batches(Len(run_ids), batch_size)
    /\ pc' = "done"
    /\ UNCHANGED <<ctorVars, fmtVars, data, sources, docs, metadata, ids, unique_notion_pages,
                   batch_size, db, page_does_not_exist_in_db, run_ids,
                   run_docs, run_embeddings, run_metadata, i, dbStart, sent,
                   upserts, embedCalls, prevCompleted>>

Next ==
    \/ upload_notion_vectors
    \/ query_error
    \/ embed_call
    \/ embed_error
    \/ upsert_batch
    \/ upsert_error
    \/ upload_in_batches_return

Spec == Init /\ [][Next]_vars

(***************************************************************************)
(* upload_in_batches called on its own, with any index-aligned lists and   *)
(* (pinecone.py 75) any batch_size >= 1.                                   *)
(***************************************************************************)

InitBatches ==
    /\ data = <<>>
    /\ sources = <<>>
    /\ docs = <<>>
    /\ metadata = <<>>
    /\ ids = <<>>
    /\ unique_notion_pages = {}
    /\ batch_size \in 1..MaxBatchSize
    /\ db \in InitialDbs
    /\ dbStart = db
    /\ pc = "upsert"
    /\ page_does_not_exist_in_db = {}
    /\ \E n \in 0..MaxItems :
          \E ts \in [1..n -> Texts], ss \in [1..n -> Sources] :
              /\ run_docs = ts
              /\ run_ids = hash_docs(ts)
              /\ run_embeddings = embed_documents(ts)
              /\ run_metadata = [k \in 1..n |-> [text |-> ts[k], source |-> ss[k]]]
    /\ i = 0
    /\ sent = <<>>
    /\ upserts = <<>>
    /\ embedCalls = 0
    /\ prevCompleted = FALSE
    /\ NoConstructor
    /\ NoFormat

NextBatches ==
    \/ upsert_batch
    \/ upsert_error
    \/ upload_in_batches_return

SpecBatches == InitBatches /\ [][NextBatches]_vars

(***************************************************************************)
(* Properties.                                                             *)
(***************************************************************************)

\* A record of source s is stored in index d.
Stored(d, s) == \E x \in DOMAIN d : d[x].metadata.source = s

\* The input of the run of upload_in_batches, as vectors.
RunInput == [k \in 1..Len(run_ids) |->
                <<run_ids[k], run_embeddings[k], run_metadata[k]>>]

IsPrefix(a, b) == Len(a) <= Len(b) /\ \A k \in 1..Len(a) : a[k] = b[k]

CeilDiv(n, bs) == (n + bs - 1) \div bs

\* C1: a run of upload_notion_vectors that follows a run that returned
\* without error (same local documents, index as that run left it) issues
\* no embedding call and no upsert: nothing passes the filter.
C1_SecondRunUploadsNothing ==
    prevCompleted =>
        /\ run_ids = <<>>
        /\ embedCalls = 0
        /\ upserts = <<>>

\* The vectors C2 expects of a run: the (id, embedding of chunk, metadata) of
\* every chunk whose source had no record in the index when the run started,
\* in the order of the local lists.
ExpectedVectors ==
    LET zs == SelectSeq([k \in 1..Len(ids) |-> <<ids[k], docs[k], metadata[k]>>],
                        LAMBDA z : ~Stored(dbStart, z[3].source))
    IN  [k \in 1..Len(zs) |-> <<zs[k][1], Embedding(zs[k][2]), zs[k][3]>>]

\* C2: a run of upload_notion_vectors that returns has upserted exactly the
\* vectors of the sources that the existence check reported absent, in their
\* original order (a run under way or aborted, a prefix of them); no chunk of
\* a source reported present is embedded or upserted; and when no source is
\* absent there is no embedding call, no upsert, and the index is unchanged.
C2_UpsertsExactlyMissingSources ==
    pc \notin {"idle", "query_failed"} =>
        /\ pc = "done" => sent = ExpectedVectors
        /\ IsPrefix(sent, ExpectedVectors)
        /\ \A k \in 1..Len(sent) : ~Stored(dbStart, sent[k][3].source)
        /\ \A k \in 1..Len(run_metadata) : ~Stored(dbStart, run_metadata[k].source)
        /\ Len(run_docs) = Len(ExpectedVectors)
        /\ ExpectedVectors = <<>> =>
              /\ pc = "done"
              /\ embedCalls = 0
              /\ upserts = <<>>
              /\ db = dbStart

\* C2 witness: a run returned having upserted some chunks and skipped a
\* chunk of a stored source whose local text is not in the index.
C2_Witness ==
    /\ pc = "done"
    /\ sent # <<>>
    /\ \E k \in 1..Len(ids) :
          /\ Stored(dbStart, metadata[k].source)
          /\ ids[k] \notin DOMAIN db

\* C3: upload_in_batches issues its upserts one after another in index
\* order; call j carries the items [ (j-1)*batch_size, min(j*batch_size, n) )
\* of the input, is non-empty and at most batch_size long, and only the last
\* may be shorter; a run that returns has issued ceil(n / batch_size) calls
\* whose concatenation is the input (none for empty input).
C3_BatchesPartitionInput ==
    LET n == Len(run_ids)
        nb == CeilDiv(n, batch_size)
    IN  /\ Len(upserts) <= nb
        /\ \A j \in 1..Len(upserts) :
              /\ upserts[j].batch = j - 1
              /\ upserts[j].vectors =
                    [k \in 1..(Min(j * batch_size, n) - (j - 1) * batch_size) |->
                        RunInput[(j - 1) * batch_size + k]]
              /\ Len(upserts[j].vectors) >= 1
              /\ Len(upserts[j].vectors) <= batch_size
              /\ Len(upserts[j].vectors) < batch_size => j = nb
        /\ pc = "done" =>
              /\ Len(upserts) = nb
              /\ Concat([j \in 1..Len(upserts) |-> upserts[j].vectors]) = RunInput
              /\ sent = RunInput
              /\ n = 0 => upserts = <<>>

\* C3 witness: a run returned after several batches, the last one short.
C3_Witness ==
    /\ pc = "done"
    /\ Len(upserts) >= 2
    /\ Len(upserts[Len(upserts)].vectors) < batch_size

\* C4: when the upsert of batch k raises, the run is over: the calls issued
\* are batches 0..k, each once and in order, nothing after k (a run that goes
\* on or returns has had every call succeed); what was sent is batches
\* 0..k-1; every record of those batches is still stored, and the index is
\* the index the run found with exactly those batches written, and batch k
\* written or not (no rollback, nothing of batches k+1..).
C4_FailureAbortsWithoutRollback ==
    /\ \A j \in 1..Len(upserts) : upserts[j].batch = j - 1
    /\ pc \in {"upsert", "done"} =>
          /\ Len(upserts) = i
          /\ Len(sent) = Min(i * batch_size, Len(run_ids))
    /\ (pc = "aborted" /\ upserts # <<>>) =>
          /\ Len(upserts) = i + 1
          /\ sent = Concat([j \in 1..i |-> upserts[j].vectors])
          /\ sent = [k \in 1..Min(i * batch_size, Len(run_ids)) |-> RunInput[k]]
          /\ \A k \in 1..Len(sent) :
                /\ sent[k][1] \in DOMAIN db
                /\ db[sent[k][1]].metadata.text = sent[k][3].text
          /\ \/ db = upsert(dbStart, sent)
             \/ db = upsert(dbStart, sent \o upserts[i + 1].vectors)

\* C4 witness: a run aborted on its second or a later batch, the earlier
\* batches having changed the index.
C4_Witness ==
    /\ pc = "aborted"
    /\ Len(upserts) >= 2
    /\ db # dbStart

\* The texts of the chunks of source s, in order.
ContentOf(s) ==
    LET ms == SelectSeq(metadata, LAMBDA m : m.source = s)
    IN  [k \in 1..Len(ms) |-> ms[k].text]

\* Two distinct local sources with identical content, the first stored and
\* the second not when the run started.
TwinStoredAndMissing(s1, s2) ==
    /\ s1 \in unique_notion_pages
    /\ s2 \in unique_notion_pages
    /\ s1 # s2
    /\ ContentOf(s1) = ContentOf(s2)
    /\ Stored(dbStart, s1)
    /\ ~Stored(dbStart, s2)

\* C5: chunks of equal text have equal ids whatever their sources; the
\* existence check of a page is true exactly when a stored record carries
\* that source; and a run that finds one of two sources of identical content
\* stored uploads every chunk of the other one and none of the stored one.
C5_DedupIsPerSource ==
    /\ \A a, b \in 1..Len(docs) : docs[a] = docs[b] => ids[a] = ids[b]
    /\ \A s \in Sources : check_notion_page_in_db(db, s) <=> Stored(db, s)
    /\ pc = "done" =>
          \A s1, s2 \in Sources :
              TwinStoredAndMissing(s1, s2) =>
                  /\ \A k \in 1..Len(metadata) :
                        metadata[k].source = s2 =>
                            \E j \in 1..Len(sent) :
                                /\ sent[j][1] = ids[k]
                                /\ sent[j][3] = metadata[k]
                  /\ \A j \in 1..Len(sent) : sent[j][3].source # s1

\* C5 witness: such a run returned.
C5_Witness ==
    /\ pc = "done"
    /\ \E s1, s2 \in Sources : TwinStoredAndMissing(s1, s2)
    /\ sent # <<>>

\* The document (index into data) that chunk k was split from.
RECURSIVE OwnerFrom(_, _)
OwnerFrom(k, f) ==
    IF k <= Len(split_text(data[f])) THEN <<f, k>>
    ELSE OwnerFrom(k - Len(split_text(data[f])), f + 1)

\* C6: ids, chunks and metadata are index-aligned: chunk k is the piece of a
\* document, its metadata holds that text and that document's source, its id
\* is the hash of that text (so equal texts have equal ids); and every vector
\* handed to upsert has the id and the embedding of its own metadata text and
\* the metadata of a local chunk.
C6_RecordsAreAligned ==
    /\ Len(ids) = Len(docs)
    /\ Len(metadata) = Len(docs)
    /\ \A k \in 1..Len(docs) :
          LET o == OwnerFrom(k, 1)
          IN  /\ docs[k] = split_text(data[o[1]])[o[2]]
              /\ metadata[k].text = docs[k]
              /\ metadata[k].source = sources[o[1]]
              /\ ids[k] = hash(metadata[k].text)
    /\ \A a, b \in 1..Len(docs) : metadata[a].text = metadata[b].text => ids[a] = ids[b]
    /\ Len(run_ids) = Len(run_docs)
    /\ Len(run_ids) = Len(run_metadata)
    /\ pc \in {"upsert", "done"} /\ run_ids # <<>> => Len(run_embeddings) = Len(run_ids)
    /\ \A j \in 1..Len(upserts) :
          \A k \in 1..Len(upserts[j].vectors) :
              LET v == upserts[j].vectors[k]
              IN  /\ v[1] = hash(v[3].text)
                  /\ v[2] = Embedding(v[3].text)
                  /\ \E c \in 1..Len(metadata) : metadata[c] = v[3] /\ ids[c] = v[1]
    /\ \A x \in DOMAIN db :
          x # hash(StaleText) =>
              /\ x = hash(db[x].metadata.text)
              /\ db[x].values = Embedding(db[x].metadata.text)

\* C6 witness: a run has upserted chunks of two documents of different
\* sources in two batches.
C6_Witness ==
    /\ Len(upserts) >= 2
    /\ \E a, b \in 1..Len(sent) : sent[a][3].source # sent[b][3].source

\* C10: after a run that returned without error, on an index that held
\* nothing before the first run, every local chunk is stored.
C10_CompleteAfterCompletedRun ==
    (pc = "done" /\ hash(StaleText) \notin DOMAIN db) =>
        \A k \in 1..Len(ids) : ids[k] \in DOMAIN db

(***************************************************************************)
(* Construction: Embedder.__init__ (embedding.py 25-40),                   *)
(* PineconeVectorStore.__init__ (pinecone.py 27-64) and                    *)
(* NotionPinecone.__init__ (notion.py 25-56).                              *)
(***************************************************************************)

Keys == {"OPENAI_API_KEY", "PINECONE_API_KEY", "PINECONE_ENVIRONMENT"}

\* A credential is absent (None) or set.
CredentialValues == {None, "key"}

Extensions == {".md", ".pdf", ".doc", ".docx"}

\* A file opens and parses ("ok"), opens but cannot be decoded or parsed
\* ("corrupt": not UTF-8, not a PDF, not a Word document), or cannot be
\* opened at all ("unreadable": open() raises OSError).
FileStates == {"ok", "corrupt", "unreadable"}

\* What reading file p yields, and format_notion_source(str(p)).
TextOf(p) == <<"text", p.path>>
SourceOf(p) == <<"source", p.path>>

\* utils.get_env_var: var or os.getenv(key); None when it raises.
Truthy(v) == v \notin {None, ""}

get_env_var(key, var) == IF Truthy(var) THEN var ELSE environ[key]

\* Path(notion_path).glob("**/*" + ext), in directory order.
glob(ext) == SelectSeq(paths, LAMBDA p : p.ext = ext)

markdown_paths == glob(".md")
pdf_paths == glob(".pdf")
doc_paths == glob(".doc") \o glob(".docx")

\* The loops of extract_pdf and extract_doc: "except Exception" skips every
\* file that fails.
ReadSkippingAll(ps) == SelectSeq(ps, LAMBDA p : p.state = "ok")

\* The loop of extract_md: "except UnicodeDecodeError" skips the files that
\* do not decode; any other exception leaves the loop.
RECURSIVE ReadMd(_)
ReadMd(ps) ==
    IF ps = <<>> THEN [read |-> <<>>, error |-> None]
    ELSE IF Head(ps).state = "unreadable"
         THEN [read |-> <<>>, error |-> "OSError"]
         ELSE LET rest == ReadMd(Tail(ps))
              IN  IF Head(ps).state = "ok"
                  THEN [read |-> <<Head(ps)>> \o rest.read, error |-> rest.error]
                  ELSE rest

Texts_(ps) == [k \in 1..Len(ps) |-> TextOf(ps[k])]
Sources_(ps) == [k \in 1..Len(ps) |-> SourceOf(ps[k])]

MaxPaths == 2

InitConstruct ==
    /\ cls \in {"Embedder", "PineconeVectorStore", "NotionPinecone"}
    /\ arg \in [Keys -> CredentialValues]
    /\ environ \in [Keys -> CredentialValues]
    /\ IF cls = "NotionPinecone"
       THEN /\ \E n \in 0..MaxPaths :
                  \E es \in [1..n -> Extensions], st \in [1..n -> FileStates] :
                      paths = [k \in 1..n |-> [path |-> k, ext |-> es[k], state |-> st[k]]]
            /\ encoding_cached \in BOOLEAN
       ELSE /\ paths = <<>>
            /\ encoding_cached = TRUE
    /\ cpc = CASE cls = "Embedder" -> "embedder_init"
               [] cls = "PineconeVectorStore" -> "store_init"
               [] cls = "NotionPinecone" -> "extract_doc"
    /\ doc_docs = <<>>
    /\ doc_sources = <<>>
    /\ pdf_docs = <<>>
    /\ pdf_sources = <<>>
    /\ md_docs = <<>>
    /\ md_sources = <<>>
    /\ ex_data = <<>>
    /\ ex_sources = <<>>
    /\ network = <<>>
    /\ raised = None
    /\ NoUpload
    /\ NoFormat

\* Embedder.__init__ (embedding.py 35-40).
embedder_init ==
    /\ cpc = "embedder_init"
    /\ IF get_env_var("OPENAI_API_KEY", arg["OPENAI_API_KEY"]) = None
       THEN cpc' = "failed" /\ raised' = "EnvironmentError"
       ELSE cpc' = "constructed" /\ raised' = raised
    /\ UNCHANGED <<uploadVars, fmtVars, cls, arg, environ, paths,
                   encoding_cached, doc_docs, doc_sources, pdf_docs,
                   pdf_sources, md_docs, md_sources, ex_data, ex_sources,
                   network>>

\* NotionPinecone.extract_doc (notion.py 94-105), called at line 67.
extract_doc ==
    /\ cpc = "extract_doc"
    /\ doc_docs' = Texts_(ReadSkippingAll(doc_paths))
    /\ doc_sources' = Sources_(ReadSkippingAll(doc_paths))
    /\ cpc' = "extract_pdf"
    /\ UNCHANGED <<uploadVars, fmtVars, cls, arg, environ, paths,
                   encoding_cached, pdf_docs, pdf_sources, md_docs,
                   md_sources, ex_data, ex_sources, network, raised>>

\* NotionPinecone.extract_pdf (notion.py 79-92), called at line 69.
extract_pdf ==
    /\ cpc = "extract_pdf"
    /\ pdf_docs' = Texts_(ReadSkippingAll(pdf_paths))
    /\ pdf_sources' = Sources_(ReadSkippingAll(pdf_paths))
    /\ cpc' = "extract_md"
    /\ UNCHANGED <<uploadVars, fmtVars, cls, arg, environ, paths,
                   encoding_cached, doc_docs, doc_sources, md_docs,
                   md_sources, ex_data, ex_sources, network, raised>>

\* NotionPinecone.extract_md (notion.py 107-117), called at line 71: an
\* exception other than UnicodeDecodeError leaves extract_notion_data and
\* the constructor.
extract_md ==
    /\ cpc = "extract_md"
    /\ LET r == ReadMd(markdown_paths)
       IN  IF r.error # None
           THEN /\ raised' = r.error
                /\ cpc' = "failed"
                /\ UNCHANGED <<md_docs, md_sources>>
           ELSE /\ md_docs' = Texts_(r.read)
                /\ md_sources' = Sources_(r.read)
                /\ cpc' = "chunk"
                /\ raised' = raised
    /\ UNCHANGED <<uploadVars, fmtVars, cls, arg, environ, paths,
                   encoding_cached, doc_docs, doc_sources, pdf_docs,
                   pdf_sources, ex_data, ex_sources, network>>

\* extract_notion_data, lines 73-77: the lists are joined and chunked.
\* Chunking a document measures it with Embedder.token_length, whose encoder
\* property calls tiktoken.get_encoding (embedding.py 116-119): that
\* downloads the vocabulary file when it is not in the local cache.
chunk ==
    /\ cpc = "chunk"
    /\ ex_data' = pdf_docs \o doc_docs \o md_docs
    /\ ex_sources' = pdf_sources \o doc_sources \o md_sources
    /\ network' = IF ex_data' # <<>> /\ ~encoding_cached
                  THEN Append(network, "tiktoken vocabulary")
                  ELSE network
    /\ cpc' = "store_init"
    /\ UNCHANGED <<uploadVars, fmtVars, cls, arg, environ, paths,
                   encoding_cached, doc_docs, doc_sources, pdf_docs,
                   pdf_sources, md_docs, md_sources, raised>>

\* PineconeVectorStore.__init__, lines 39-48: the three credentials are
\* resolved in turn; the first one missing raises.
store_init ==
    /\ cpc = "store_init"
    /\ IF \/ get_env_var("OPENAI_API_KEY", arg["OPENAI_API_KEY"]) = None
          \/ get_env_var("PINECONE_API_KEY", arg["PINECONE_API_KEY"]) = None
          \/ get_env_var("PINECONE_ENVIRONMENT", arg["PINECONE_ENVIRONMENT"]) = None
       THEN cpc' = "failed" /\ raised' = "EnvironmentError"
       ELSE cpc' = "pinecone_init" /\ raised' = raised
    /\ UNCHANGED <<uploadVars, fmtVars, cls, arg, environ, paths,
                   encoding_cached, doc_docs, doc_sources, pdf_docs,
                   pdf_sources, md_docs, md_sources, ex_data, ex_sources,
                   network>>

\* PineconeVectorStore.__init__, lines 50-64: pinecone.init and the index
\* handles talk to the Pinecone service.
pinecone_init ==
    /\ cpc = "pinecone_init"
    /\ network' = Append(network, "pinecone")
    /\ cpc' = "constructed"
    /\ UNCHANGED <<uploadVars, fmtVars, cls, arg, environ, paths,
                   encoding_cached, doc_docs, doc_sources, pdf_docs,
                   pdf_sources, md_docs, md_sources, ex_data, ex_sources,
                   raised>>

NextConstruct ==
    \/ embedder_init
    \/ extract_doc
    \/ extract_pdf
    \/ extract_md
    \/ chunk
    \/ store_init
    \/ pinecone_init

SpecConstruct == InitConstruct /\ [][NextConstruct]_vars

\* The credentials the constructor of class c requires.
Required(c) == IF c = "Embedder" THEN {"OPENAI_API_KEY"} ELSE Keys

MissingCredential ==
    \E key \in Required(cls) : arg[key] = None /\ environ[key] = None

\* C7: a constructor called with a required credential given neither as an
\* argument nor in the environment does not construct the object, and when
\* it raises the missing-credential error no remote endpoint has been called.
C7_NoNetworkBeforeCredentialFailure ==
    /\ MissingCredential => cpc # "constructed"
    /\ raised = "EnvironmentError" => network = <<>>

\* The files of the given extension that open and parse.
ReadableOf(ext) == SelectSeq(paths, LAMBDA p : p.ext = ext /\ p.state = "ok")

ReadableInOrder ==
    ReadableOf(".pdf") \o ReadableOf(".doc") \o ReadableOf(".docx") \o ReadableOf(".md")

\* C8: extraction never raises, whatever files fail; once it has returned,
\* the texts and the sources are those of exactly the files that were read,
\* index-aligned.
C8_ExtractionSkipsFailingFiles ==
    /\ raised \in {None, "EnvironmentError"}
    /\ cpc \in {"store_init", "pinecone_init", "constructed"} =>
          /\ Len(ex_data) = Len(ex_sources)
          /\ ex_data = Texts_(ReadableInOrder)
          /\ ex_sources = Sources_(ReadableInOrder)

(***************************************************************************)
(* utils.format_notion_source (utils.py 73-93). A string is a sequence of  *)
(* one-character strings.                                                  *)
(***************************************************************************)

\* [a-f0-9]
HexChars == {"0", "1", "2", "3", "4", "5", "6", "7", "8", "9",
             "a", "b", "c", "d", "e", "f"}

\* What str.rstrip() strips.
Whitespace == {" ", "\t", "\n", "\r"}

\* The {32} of the pattern.
IdLength == 32

\* string.replace("\\", "/")
replace_backslashes(string) ==
    [k \in 1..Len(string) |-> IF string[k] = "\\" THEN "/" ELSE string[k]]

\* [a-f0-9]{32} matches at position p.
HexRunAt(string, p) ==
    /\ p + IdLength - 1 <= Len(string)
    /\ \A k \in 0..(IdLength - 1) : string[p + k] \in HexChars

\* literal follows at position p.
LiteralAt(string, p, literal) ==
    /\ p + Len(literal) - 1 <= Len(string)
    /\ \A k \in 1..Len(literal) : string[p + k - 1] = literal[k]

\* Faulty variant of match_length: the "/" after an identifier is kept.
match_length_keeps_slash(string, p) ==
    IF HexRunAt(string, p) /\ LiteralAt(string, p + IdLength, <<"/">>)
    THEN IdLength
    ELSE IF HexRunAt(string, p) /\ LiteralAt(string, p + IdLength, <<".", "m", "d">>)
    THEN IdLength + 3
    ELSE IF /\ LiteralAt(string, p, <<" ">>)
            /\ HexRunAt(string, p + 1)
            /\ LiteralAt(string, p + 1 + IdLength, <<" ">>)
    THEN IdLength + 2
    ELSE 0

\* The length of the match of
\*   ([a-f0-9]{32}/|[a-f0-9]{32}\.md| [a-f0-9]{32} )
\* at position p, the alternatives tried from the left; 0 for no match.
match_length(string, p) ==
    IF HexRunAt(string, p) /\ LiteralAt(string, p + IdLength, <<"/">>)
    THEN IdLength + 1
    ELSE IF HexRunAt(string, p) /\ LiteralAt(string, p + IdLength, <<".", "m", "d">>)
    THEN IdLength + 3
    ELSE IF /\ LiteralAt(string, p, <<" ">>)
            /\ HexRunAt(string, p + 1)
            /\ LiteralAt(string, p + 1 + IdLength, <<" ">>)
    THEN IdLength + 2
    ELSE 0

\* re.sub(pattern, "", string): the non-overlapping matches, found from the
\* left, are removed. scan[p] is what is kept of string[p:].
re_sub(string) ==
    LET scan[p \in 1..(Len(string) + 1)] ==
            IF p > Len(string) THEN <<>>
            ELSE IF match_length(string, p) > 0
                 THEN scan[p + match_length(string, p)]
                 ELSE <<string[p]>> \o scan[p + 1]
    IN  scan[1]

\* str.rstrip()
RECURSIVE rstrip(_)
rstrip(string) ==
    IF string # <<>> /\ string[Len(string)] \in Whitespace
    THEN rstrip(SubSeq(string, 1, Len(string) - 1))
    ELSE string

format_notion_source(string) ==
    rstrip(re_sub(replace_backslashes(string)))

\* The pieces the inputs are made of.
NotionId == <<"0", "1", "2", "3", "4", "5", "6", "7", "8", "9", "a", "b",
              "c", "d", "e", "f", "0", "1", "2", "3", "4", "5", "6", "7",
              "8", "9", "a", "b", "c", "d", "e", "f">>

Pieces == { <<"\\">>, <<"/">>, <<" ">>, <<".", "m", "d">>, <<"f">>,
            <<"P", "a", "g", "e">>, <<"C", ":">>, NotionId }

MaxPieces == 3

\* C:\Notion\Page <id>\SubPage <id>.md
ExamplePath ==
    <<"C", ":", "\\", "N", "o", "t", "i", "o", "n", "\\", "P", "a", "g", "e", " ">>
    \o NotionId
    \o <<"\\", "S", "u", "b", "P", "a", "g", "e", " ">>
    \o NotionId \o <<".", "m", "d">>

FormatInputs ==
    {ExamplePath} \cup {Concat(ps) : ps \in SeqsUpTo(Pieces, MaxPieces)}

InitFormat ==
    /\ fmt_in \in FormatInputs
    /\ fmt_out = <<>>
    /\ fmt_pc = "call"
    /\ NoUpload
    /\ NoConstructor

format_call ==
    /\ fmt_pc = "call"
    /\ fmt_out' = format_notion_source(fmt_in)
    /\ fmt_pc' = "returned"
    /\ UNCHANGED <<uploadVars, ctorVars, fmt_in>>

NextFormat == format_call

SpecFormat == InitFormat /\ [][NextFormat]_vars

\* Notion/Page /SubPage
ClaimedExampleResult ==
    <<"N", "o", "t", "i", "o", "n", "/", "P", "a", "g", "e", " ", "/",
      "S", "u", "b", "P", "a", "g", "e">>

\* C:/Notion/Page SubPage
ExampleResult ==
    <<"C", ":", "/", "N", "o", "t", "i", "o", "n", "/", "P", "a", "g", "e", " ",
      "S", "u", "b", "P", "a", "g", "e">>

CharAt(string, p, c) == p >= 1 /\ p <= Len(string) /\ string[p] = c

\* The string holds 32 characters of [a-f0-9] followed by "/" or ".md", or
\* set between two spaces.
HoldsIdSegment(string) ==
    \E p \in 1..Len(string) :
        /\ \A k \in 0..(IdLength - 1) : \E c \in HexChars : CharAt(string, p + k, c)
        /\ \/ CharAt(string, p + IdLength, "/")
           \/ /\ CharAt(string, p + IdLength, ".")
              /\ CharAt(string, p + IdLength + 1, "m")
              /\ CharAt(string, p + IdLength + 2, "d")
           \/ /\ CharAt(string, p - 1, " ")
              /\ CharAt(string, p + IdLength, " ")

====
